---- MODULE Spec2Model ----
(***************************************************************************)
(* State-machine model of mem_sim.py: cores, private L1 caches, a shared   *)
(* L2 cache, the interconnect, the DDR memory controller and the DDR       *)
(* memory, ticked in the order of Experiment.simulate.                     *)
(*                                                                         *)
(* Every component of mem_sim.py is parameterised by its constructor       *)
(* arguments.  The model instantiates the components with a small          *)
(* configuration (two-way caches with two sets, short DDR timings, an      *)
(* interconnect of bandwidth one) so that evictions, row hits, bandwidth   *)
(* saturation and completions all happen within a few cycles.              *)
(***************************************************************************)
EXTENDS Integers, Sequences, FiniteSets, TLC

(***************************************************************************)
(* Configuration (constructor arguments, Experiment.__init__)              *)
(***************************************************************************)
Cores == {0, 1}
Levels == {"L1_0", "L1_1", "L2"}
L1(c) == IF c = 0 THEN "L1_0" ELSE "L1_1"

l1_conf == [size |-> 16, line_size |-> 4, assoc |-> 2]
l2_conf == [size |-> 16, line_size |-> 4, assoc |-> 2]
conf(k) == IF k = "L2" THEN l2_conf ELSE l1_conf

line_size(k) == conf(k).line_size
assoc(k) == conf(k).assoc
num_sets(k) == (conf(k).size \div conf(k).line_size) \div conf(k).assoc

\* CacheLevel.lower / CacheLevel.memory: an L1 has the shared L2 below it,
\* the L2 has the interconnect below it.
lower(k) == IF k = "L2" THEN "none" ELSE "L2"
has_memory(k) == k = "L2"

num_banks == 4
delay == 1
bandwidth == 1
tRCD == 1
tRP == 3
tCAS == 1
tRC == 4
tWR == 1
tCCD == 2
base_latency == 0
row_hit_latency == 0

\* None, for a tag, a row, a time or a way.
None == -1
NoOp == <<"none", None>>

(***************************************************************************)
(* Bounds of the model                                                     *)
(***************************************************************************)
\* Trace entries exist only at cycles 0 .. TraceLen-1.
TraceLen == 3
\* The entries of core 1's trace are at cycles 0 .. TraceLen1-1.
TraceLen1 == 1
\* Number of trace entries of the two cores together.
MaxOps == 3
\* The simulation is run for MaxCycle cycles at most.
MaxCycle == 40
Addrs == {5, 12, 20}
Ops == {"read", "write"} \X Addrs
\* random.randint(0, 2)
Jitter == 0 .. 2

Min(S) == CHOOSE x \in S : \A y \in S : x <= y

Max2(a, b) == IF a >= b THEN a ELSE b

(***************************************************************************)
(* PLRU                                                                    *)
(***************************************************************************)
RECURSIVE bit_length(_)
bit_length(n) == IF n = 0 THEN 0 ELSE 1 + bit_length(n \div 2)

RECURSIVE Pow2(_)
Pow2(n) == IF n = 0 THEN 1 ELSE 2 * Pow2(n - 1)

\* PLRU.__init__: bits = [0] * (ways - 1), indexed from 0.
PLRU(ways) == [i \in 0 .. (ways - 2) |-> 0]

\* A variant of update_on_access that points the bits toward the way accessed.
RECURSIVE UpdateLoop_Toward(_, _, _, _, _)
UpdateLoop_Toward(bits, way, num_levels, idx, level) ==
  IF level >= num_levels THEN bits
  ELSE LET direction == (way \div Pow2(num_levels - 1 - level)) % 2
       IN UpdateLoop_Toward([bits EXCEPT ![idx] = direction], way, num_levels,
                            (idx * 2) + 1 + direction, level + 1)

update_on_access_Toward(bits, ways, way) ==
  UpdateLoop_Toward(bits, way, bit_length(ways) - 1, 0, 0)

RECURSIVE UpdateLoop(_, _, _, _, _)
UpdateLoop(bits, way, num_levels, idx, level) ==
  IF level >= num_levels THEN bits
  ELSE LET direction == (way \div Pow2(num_levels - 1 - level)) % 2
       IN UpdateLoop([bits EXCEPT ![idx] = 1 - direction], way, num_levels,
                     2 * idx + 1 + direction, level + 1)

update_on_access(bits, ways, way) ==
  UpdateLoop(bits, way, bit_length(ways) - 1, 0, 0)

RECURSIVE VictimLoop(_, _, _, _, _)
VictimLoop(bits, num_levels, idx, way, level) ==
  IF level >= num_levels THEN way
  ELSE LET direction == bits[idx]
       IN VictimLoop(bits, num_levels, 2 * idx + 1 + direction,
                     2 * way + direction, level + 1)

get_victim(bits, ways) == VictimLoop(bits, bit_length(ways) - 1, 0, 0, 0)

(***************************************************************************)
(* heapq on sequences of (key, request) pairs.  Positions are 0-based as   *)
(* in Python: position p is element p+1 of the sequence.                   *)
(***************************************************************************)
\* Tuple comparison (key, req) < (key', req'): the keys decide unless they
\* are equal, and then MemoryRequest.__lt__ compares the time fields.
ItemLt(a, b) ==
  \/ a.key < b.key
  \/ a.key = b.key /\ a.req.id # b.req.id /\ a.req.time < b.req.time

RECURSIVE SiftDownLoop(_, _, _, _)
SiftDownLoop(heap, startpos, pos, newitem) ==
  IF pos > startpos
     THEN LET parentpos == (pos - 1) \div 2
              parent == heap[parentpos + 1]
          IN IF ItemLt(newitem, parent)
                THEN SiftDownLoop([heap EXCEPT ![pos + 1] = parent],
                                  startpos, parentpos, newitem)
                ELSE [heap EXCEPT ![pos + 1] = newitem]
     ELSE [heap EXCEPT ![pos + 1] = newitem]

siftdown(heap, startpos, pos) == SiftDownLoop(heap, startpos, pos, heap[pos + 1])

RECURSIVE SiftUpLoop(_, _, _, _)
SiftUpLoop(heap, startpos, pos, newitem) ==
  LET endpos == Len(heap)
      leftpos == 2 * pos + 1
      rightpos == leftpos + 1
      childpos == IF rightpos < endpos
                     /\ ~ItemLt(heap[leftpos + 1], heap[rightpos + 1])
                  THEN rightpos ELSE leftpos
  IN IF leftpos < endpos
        THEN SiftUpLoop([heap EXCEPT ![pos + 1] = heap[childpos + 1]],
                        startpos, childpos, newitem)
        ELSE siftdown([heap EXCEPT ![pos + 1] = newitem], startpos, pos)

siftup(heap, pos) == SiftUpLoop(heap, pos, pos, heap[pos + 1])

heappush(heap, item) == siftdown(Append(heap, item), 0, Len(heap))

\* heappop returns heap[0]; this is the heap it leaves.
heappop(heap) ==
  LET lastelt == heap[Len(heap)]
      rest == SubSeq(heap, 1, Len(heap) - 1)
  IN IF rest = <<>> THEN rest ELSE siftup([rest EXCEPT ![1] = lastelt], 0)

RECURSIVE HeapifyLoop(_, _)
HeapifyLoop(x, i) == IF i < 0 THEN x ELSE HeapifyLoop(siftup(x, i), i - 1)

heapify(x) == HeapifyLoop(x, (Len(x) \div 2) - 1)

(***************************************************************************)
(* State                                                                   *)
(***************************************************************************)
VARIABLES
  global_cycle,        \* the global clock
  pc,                  \* position in the body of Experiment.simulate's loop
  policy,              \* per level: write_back, write_allocate
  cache,               \* per level: lines (sets of CacheLine), PLRU bits, hits, misses
  ic_queue,            \* Interconnect.queue, a heap of (ready_time, request)
  ic_cycle,            \* Interconnect.cycle
  ctrl_queue,          \* DDRMemoryController.queue, a heap of (time, request)
  scheduled_ddr_requests,
  ctrl_cycle,          \* DDRMemoryController.cycle
  last_command_time,   \* per bank, None when the bank is not in the dict
  ctrl_bank_open_row,  \* DDRMemoryController.bank_open_row
  bank_precharge_complete_time,
  last_access_command, \* per bank, "none" when the bank is not in the dict
  ddr_cycle,           \* DDRMemory.cycle
  bank_states,
  bank_timers,
  ddr_bank_open_row,   \* DDRMemory.bank_open_row
  scheduled_completions,
  pending_accesses,    \* per core
  stall_op,            \* per core, NoOp for None
  inst,                \* per core: the trace, cycle -> (op, addr) or NoOp
  next_id,             \* identity of the next MemoryRequest object
  hist                 \* history of calls and events, read by the properties only

vars == <<global_cycle, pc, policy, cache, ic_queue, ic_cycle, ctrl_queue,
          scheduled_ddr_requests, ctrl_cycle, last_command_time,
          ctrl_bank_open_row, bank_precharge_complete_time,
          last_access_command, ddr_cycle, bank_states, bank_timers,
          ddr_bank_open_row, scheduled_completions, pending_accesses,
          stall_op, inst, next_id, hist>>

Banks == 0 .. (num_banks - 1)
Sets(k) == 0 .. (num_sets(k) - 1)
Ways(k) == 0 .. (assoc(k) - 1)

write_back(k) == policy[k].write_back
write_allocate(k) == policy[k].write_allocate

\* CacheLine.__init__
CacheLine == [valid |-> FALSE, tag |-> None, dirty |-> FALSE]

\* CacheLevel.__init__
CacheLevel(k) ==
  [lines |-> [s \in Sets(k) |-> [w \in Ways(k) |-> CacheLine]],
   bits |-> [s \in Sets(k) |-> PLRU(assoc(k))],
   hits |-> 0,
   misses |-> 0]

_index(k, addr) == (addr \div line_size(k)) % num_sets(k)
_tag(k, addr) == addr \div (line_size(k) * num_sets(k))

\* DDRMemory._get_bank / _get_row
_get_bank(addr) == addr % num_banks
_get_row(addr) == addr \div 16

(***************************************************************************)
(* The part of the state that a cache call chain reads and writes is       *)
(* threaded through the operators below as a record m:                     *)
(*   cache, ic_queue, pending_accesses, next_id, hist  as the variables,   *)
(*   jit   the values random.randint returns to the calls of               *)
(*         Interconnect.request still to come in this handler,             *)
(*   nreq  the number of calls of Interconnect.request so far,             *)
(*   req   the request whose callback the controller is running, if any.   *)
(***************************************************************************)
NoCallback == <<>>

\* MemoryRequest.__init__
MemoryRequest(id, core_id, time, req_type, addr, callback) ==
  [id |-> id, core_id |-> core_id, time |-> time, req_type |-> req_type,
   addr |-> addr, callback |-> callback, completion_time |-> -1]

NoRequest == MemoryRequest(None, "none", None, "none", None, NoCallback)

Machine(jit) ==
  [cache |-> cache, ic_queue |-> ic_queue, pending_accesses |-> pending_accesses,
   next_id |-> next_id, hist |-> hist, jit |-> jit, nreq |-> 0, req |-> NoRequest]

\* Interconnect.request
InterconnectRequest(m, core_id, req_type, addr, callback) ==
  LET j == IF m.jit = <<>> THEN 0 ELSE Head(m.jit)
      ready_time == ic_cycle + delay + j
      req == MemoryRequest(m.next_id, core_id, ic_cycle, req_type, addr, callback)
  IN [m EXCEPT !.ic_queue = heappush(@, [key |-> ready_time, req |-> req]),
               !.next_id = @ + 1,
               !.jit = IF @ = <<>> THEN @ ELSE Tail(@),
               !.nreq = @ + 1]

\* Core.dequeue_access: remove the oldest matching entry.
dequeue_access(pending, op, addr) ==
  LET hits == {i \in 1 .. Len(pending) : pending[i] = <<op, addr>>}
  IN IF hits = {} THEN pending
     ELSE LET i == Min(hits)
          IN SubSeq(pending, 1, i - 1) \o SubSeq(pending, i + 1, Len(pending))

\* Variants of Core.dependency: one that takes any pending access to the
\* address for a hazard, whatever its kind, and one that finds no hazard.
dependency_AnyKind(pending, op, addr) ==
  \E i \in 1 .. Len(pending) : pending[i][2] = addr

dependency_Never(pending, op, addr) == FALSE

\* Core.dependency
dependency(pending, op, addr) ==
  \E i \in 1 .. Len(pending) : pending[i][1] # op /\ pending[i][2] = addr

(***************************************************************************)
(* CacheLevel                                                              *)
(***************************************************************************)
core_id(k) == IF k = "L2" THEN "anycore" ELSE k

\* The way of the first line of the set that is valid and holds the tag,
\* None on a miss (the scan of read and write).
Lookup(cache_set, tag) ==
  LET found == {i \in DOMAIN cache_set : cache_set[i].valid /\ cache_set[i].tag = tag}
  IN IF found = {} THEN None ELSE Min(found)

\* A variant of the overwriting of a line that leaves its valid flag as it was.
SetLine_ValidKept(m, k, index, way, tag, dirty, by) ==
  LET old == m.cache[k].lines[index][way]
  IN [m EXCEPT !.cache[k].lines[index][way] =
                   [valid |-> old.valid, tag |-> tag, dirty |-> dirty],
               !.hist.evicted[k] =
                   IF old.valid /\ old.dirty
                   THEN Append(@, [index |-> index, tag |-> old.tag, by |-> by])
                   ELSE @]

\* victim_line.valid = True; victim_line.tag = tag; victim_line.dirty = dirty,
\* on the path by ("write" for a write miss, "fill" for a read-miss fill).
\* The history records the line that is overwritten when it was valid and dirty.
SetLine(m, k, index, way, tag, dirty, by) ==
  LET old == m.cache[k].lines[index][way]
  IN [m EXCEPT !.cache[k].lines[index][way] =
                   [valid |-> TRUE, tag |-> tag, dirty |-> dirty],
               !.hist.evicted[k] =
                   IF old.valid /\ old.dirty
                   THEN Append(@, [index |-> index, tag |-> old.tag, by |-> by])
                   ELSE @]

Touch(m, k, index, way) ==
  [m EXCEPT !.cache[k].bits[index] = update_on_access(@, assoc(k), way)]

\* Frames of a completion callback, innermost first: the lower_cb closures of
\* the levels that missed, then the core's lambda.
FillFrame(k, way, mid) ==
  [type |-> "fill", lvl |-> k, way |-> way, mid |-> mid, core |-> None]
CoreFrame(c) ==
  [type |-> "dequeue", lvl |-> "none", way |-> None, mid |-> None, core |-> c]

\* What the lower collaborator of level k has delivered for addr when the
\* fill continuation of k starts: the lower cache holds the line, or the
\* request the controller is completing was scheduled and its completion
\* time has come.
DataArrived(m, k, addr) ==
  IF lower(k) # "none"
  THEN Lookup(m.cache[lower(k)].lines[_index(lower(k), addr)],
              _tag(lower(k), addr)) # None
  ELSE /\ m.req.addr = addr
       /\ m.req.completion_time # -1
       /\ m.req.completion_time <= ctrl_cycle

RECURSIVE CacheWrite(_, _, _)
RECURSIVE CacheRead(_, _, _, _)
RECURSIVE Invoke(_, _, _)

\* if self.lower: self.lower.write(addr)
\* elif self.memory: self.memory.request(MemoryRequest(..., 'write', addr))
WriteDown(m, k, addr) ==
  IF lower(k) # "none" THEN CacheWrite(m, lower(k), addr)
  ELSE IF has_memory(k)
       THEN InterconnectRequest(m, core_id(k), "write", addr, NoCallback)
       ELSE m

\* A variant of the victim test that never writes back.
WriteBackVictim_Never(m, k, index, way) == m

\* Variants of the write-back of the victim: one that writes back every valid
\* victim, dirty or clean, and one that builds the address without the index
\* of the set.
WriteBackVictim_AnyValid(m, k, index, way) ==
  LET victim_line == m.cache[k].lines[index][way]
      victim_addr == ((victim_line.tag * num_sets(k)) + index) * line_size(k)
  IN IF victim_line.valid /\ write_back(k)
     THEN WriteDown([m EXCEPT !.hist.written_back[k] = Append(@, victim_addr)],
                    k, victim_addr)
     ELSE m

WriteBackVictim_NoIndex(m, k, index, way) ==
  LET victim_line == m.cache[k].lines[index][way]
      victim_addr == (victim_line.tag * num_sets(k)) * line_size(k)
  IN IF victim_line.valid /\ victim_line.dirty /\ write_back(k)
     THEN WriteDown([m EXCEPT !.hist.written_back[k] = Append(@, victim_addr)],
                    k, victim_addr)
     ELSE m

\* The write-back of the victim, on both paths:
\* if victim_line.valid and victim_line.dirty and self.write_back: ...
WriteBackVictim(m, k, index, way) ==
  LET victim_line == m.cache[k].lines[index][way]
      victim_addr == ((victim_line.tag * num_sets(k)) + index) * line_size(k)
  IN IF victim_line.valid /\ victim_line.dirty /\ write_back(k)
     THEN WriteDown([m EXCEPT !.hist.written_back[k] = Append(@, victim_addr)],
                    k, victim_addr)
     ELSE m

\* A variant of CacheLevel.write that does not count its misses.
CacheWrite_MissUncounted(m, k, addr) ==
  LET index == _index(k, addr)
      tag == _tag(k, addr)
      i == Lookup(m.cache[k].lines[index], tag)
      called == [m EXCEPT !.hist.calls[k] = @ + 1]
  IN IF i # None
     THEN LET hit == Touch([called EXCEPT !.cache[k].hits = @ + 1,
                                          !.cache[k].lines[index][i].dirty = write_back(k)],
                           k, index, i)
          IN IF ~write_back(k) THEN WriteDown(hit, k, addr) ELSE hit
     ELSE IF write_allocate(k)
          THEN LET victim_idx == get_victim(called.cache[k].bits[index], assoc(k))
                   wb == WriteBackVictim(called, k, index, victim_idx)
               IN Touch(SetLine(wb, k, index, victim_idx, tag, write_back(k), "write"),
                        k, index, victim_idx)
          ELSE WriteDown(called, k, addr)

\* CacheLevel.write
CacheWrite(m, k, addr) ==
  LET index == _index(k, addr)
      tag == _tag(k, addr)
      i == Lookup(m.cache[k].lines[index], tag)
      called == [m EXCEPT !.hist.calls[k] = @ + 1]
  IN IF i # None
     THEN LET hit == Touch([called EXCEPT !.cache[k].hits = @ + 1,
                                          !.cache[k].lines[index][i].dirty = write_back(k)],
                           k, index, i)
          IN IF ~write_back(k) THEN WriteDown(hit, k, addr) ELSE hit
     ELSE LET miss == [called EXCEPT !.cache[k].misses = @ + 1]
          IN IF write_allocate(k)
             THEN LET victim_idx == get_victim(miss.cache[k].bits[index], assoc(k))
                      wb == WriteBackVictim(miss, k, index, victim_idx)
                  IN Touch(SetLine(wb, k, index, victim_idx, tag, write_back(k), "write"),
                           k, index, victim_idx)
             ELSE WriteDown(miss, k, addr)

\* Running a callback: the closure lower_cb of CacheLevel.read for a fill
\* frame, the lambda of Core.tick (dequeue_access) for the core's frame.
Invoke(m, callback, addr) ==
  IF callback = <<>> THEN m
  ELSE LET f == Head(callback)
       IN IF f.type = "dequeue"
          THEN [m EXCEPT !.pending_accesses[f.core] = dequeue_access(@, "read", addr),
                         !.hist.callbacks[f.core] = @ + 1]
          ELSE LET k == f.lvl
                   index == _index(k, addr)
                   tag == _tag(k, addr)
                   ran == [m EXCEPT !.hist.fills =
                              Append(@, [mid |-> f.mid, lvl |-> k,
                                         data |-> DataArrived(m, k, addr)])]
                   wb == WriteBackVictim(ran, k, index, f.way)
                   filled == Touch(SetLine(wb, k, index, f.way, tag, FALSE, "fill"),
                                   k, index, f.way)
               IN Invoke(filled, Tail(callback), addr)

\* A variant of CacheLevel.read whose hit path marks the line dirty.
CacheRead_HitDirty(m, k, addr, callback) ==
  LET index == _index(k, addr)
      tag == _tag(k, addr)
      i == Lookup(m.cache[k].lines[index], tag)
      called == [m EXCEPT !.hist.calls[k] = @ + 1]
  IN IF i # None
     THEN Invoke(Touch([called EXCEPT !.cache[k].hits = @ + 1,
                                      !.cache[k].lines[index][i].dirty = TRUE],
                       k, index, i),
                 callback, addr)
     ELSE LET victim_idx == get_victim(called.cache[k].bits[index], assoc(k))
              mid == called.hist.next_mid
              miss == [called EXCEPT !.cache[k].misses = @ + 1,
                                     !.hist.next_mid = @ + 1,
                                     !.hist.missed[k] = @ \cup {mid}]
              lower_cb == <<FillFrame(k, victim_idx, mid)>> \o callback
          IN IF lower(k) # "none" THEN CacheRead(miss, lower(k), addr, lower_cb)
             ELSE IF has_memory(k)
                  THEN InterconnectRequest(miss, core_id(k), "read", addr, lower_cb)
                  ELSE miss

\* CacheLevel.read
CacheRead(m, k, addr, callback) ==
  LET index == _index(k, addr)
      tag == _tag(k, addr)
      i == Lookup(m.cache[k].lines[index], tag)
      called == [m EXCEPT !.hist.calls[k] = @ + 1]
  IN IF i # None
     THEN Invoke(Touch([called EXCEPT !.cache[k].hits = @ + 1], k, index, i),
                 callback, addr)
     ELSE LET victim_idx == get_victim(called.cache[k].bits[index], assoc(k))
              mid == called.hist.next_mid
              miss == [called EXCEPT !.cache[k].misses = @ + 1,
                                     !.hist.next_mid = @ + 1,
                                     !.hist.missed[k] = @ \cup {mid}]
              lower_cb == <<FillFrame(k, victim_idx, mid)>> \o callback
          IN IF lower(k) # "none" THEN CacheRead(miss, lower(k), addr, lower_cb)
             ELSE IF has_memory(k)
                  THEN InterconnectRequest(miss, core_id(k), "read", addr, lower_cb)
                  ELSE miss

(***************************************************************************)
(* Initial state: Experiment.__init__ and load_instr                       *)
(***************************************************************************)
Default == [write_back |-> TRUE, write_allocate |-> TRUE]

\* The policies of the levels: the defaults of CacheLevel.__init__ (the ones
\* Experiment uses), and every level write-through without allocation, so
\* that the writes of the cores reach the DDR.
Policies ==
  {[k \in Levels |-> Default],
   [k \in Levels |-> [write_back |-> FALSE, write_allocate |-> FALSE]]}

\* The traces a core can be loaded with: at most n entries, at cycles below len.
Entries(t) == Cardinality({i \in DOMAIN t : t[i] # NoOp})
Traces(len, n) ==
  {t \in [0 .. (TraceLen - 1) -> Ops \cup {NoOp}] :
     /\ Entries(t) <= n
     /\ \A i \in DOMAIN t : i >= len => t[i] = NoOp}

\* The traces core 1 is loaded with hold reads only.
Traces1 == {t \in Traces(TraceLen1, MaxOps) : \A i \in DOMAIN t : t[i][1] # "write"}

\* The traces core 0 is loaded with beside t1: when core 1 has an entry, the
\* entries of core 0 are at cycles 0 .. TraceLen1.
Traces0(t1) ==
  Traces(IF Entries(t1) > 0 THEN TraceLen1 + 1 ELSE TraceLen, MaxOps - Entries(t1))

Init ==
  /\ global_cycle = 0
  /\ pc = "core0"
  /\ policy \in Policies
  /\ cache = [k \in Levels |-> CacheLevel(k)]
  /\ ic_queue = <<>>
  /\ ic_cycle = 0
  /\ ctrl_queue = <<>>
  /\ scheduled_ddr_requests = <<>>
  /\ ctrl_cycle = 0
  /\ last_command_time = [b \in Banks |-> None]
  /\ ctrl_bank_open_row = [b \in Banks |-> None]
  /\ bank_precharge_complete_time = [b \in Banks |-> 0]
  /\ last_access_command = [b \in Banks |-> "none"]
  /\ ddr_cycle = 0
  /\ bank_states = [b \in Banks |-> "IDLE"]
  /\ bank_timers = [b \in Banks |-> 0]
  /\ ddr_bank_open_row = [b \in Banks |-> None]
  /\ scheduled_completions = <<>>
  /\ pending_accesses = [c \in Cores |-> <<>>]
  /\ stall_op = [c \in Cores |-> NoOp]
  /\ \E t1 \in Traces1 :
       \E t0 \in Traces0(t1) :
       inst = [c \in Cores |-> IF c = 0 THEN t0 ELSE t1]
  /\ next_id = 1
  /\ hist = [evicted |-> [k \in Levels |-> <<>>],
             written_back |-> [k \in Levels |-> <<>>],
             calls |-> [k \in Levels |-> 0],
             missed |-> [k \in Levels |-> {}],
             next_mid |-> 1,
             fills |-> <<>>,
             callbacks |-> [c \in Cores |-> 0],
             issued |-> [c \in Cores |-> <<>>],
             forwarded |-> 0,
             arrival |-> <<>>,
             commands |-> <<>>,
             completed |-> <<>>,
             errored |-> {}]

(***************************************************************************)
(* Core                                                                    *)
(***************************************************************************)
CorePc(c) == IF c = 0 THEN "core0" ELSE "core1"

\* Core.enqueue_access
enqueue_access(pending, op, addr) == Append(pending, <<op, addr>>)

\* A variant of the issue that records the writes as pending accesses too.
Issue_TracksWrites(m, c, e) ==
  LET logged == [m EXCEPT !.hist.issued[c] = Append(@, <<global_cycle, e[1], e[2]>>)]
  IN IF e[1] = "write"
     THEN CacheWrite([logged EXCEPT !.pending_accesses[c] =
                                       enqueue_access(@, "write", e[2])],
                     L1(c), e[2])
     ELSE CacheRead([logged EXCEPT !.pending_accesses[c] = enqueue_access(@, "read", e[2])],
                    L1(c), e[2], <<CoreFrame(c)>>)

\* The issue of an op to the cache: self.write(addr), or enqueue_access and
\* self.read(addr, lambda: self.dequeue_access('read', addr)).
Issue(m, c, e) ==
  LET logged == [m EXCEPT !.hist.issued[c] = Append(@, <<global_cycle, e[1], e[2]>>)]
  IN IF e[1] = "write"
     THEN CacheWrite(logged, L1(c), e[2])
     ELSE CacheRead([logged EXCEPT !.pending_accesses[c] = enqueue_access(@, "read", e[2])],
                    L1(c), e[2], <<CoreFrame(c)>>)

\* A variant of Core.tick that issues the stalled op at the next tick without
\* looking at the pending accesses.
CoreStep_NoRecheck(c, jit) ==
  LET m == Machine(jit)
      e == IF global_cycle \in DOMAIN inst[c] THEN inst[c][global_cycle] ELSE NoOp
  IN IF stall_op[c] # NoOp
     THEN [m |-> Issue(m, c, stall_op[c]), stall |-> NoOp]
     ELSE IF e # NoOp
          THEN IF dependency(pending_accesses[c], e[1], e[2])
               THEN [m |-> m, stall |-> e]
               ELSE [m |-> Issue(m, c, e), stall |-> NoOp]
          ELSE [m |-> m, stall |-> NoOp]

\* A variant of Core.tick that goes on to the trace entry of the cycle when
\* the stalled op has to wait.
CoreStep_IssueWhileStalled(c, jit) ==
  LET m == Machine(jit)
      e == IF global_cycle \in DOMAIN inst[c] THEN inst[c][global_cycle] ELSE NoOp
  IN IF stall_op[c] # NoOp
     THEN IF ~dependency(pending_accesses[c], stall_op[c][1], stall_op[c][2])
          THEN [m |-> Issue(m, c, stall_op[c]), stall |-> NoOp]
          ELSE IF e # NoOp /\ ~dependency(pending_accesses[c], e[1], e[2])
               THEN [m |-> Issue(m, c, e), stall |-> stall_op[c]]
               ELSE [m |-> m, stall |-> stall_op[c]]
     ELSE IF e # NoOp
          THEN IF dependency(pending_accesses[c], e[1], e[2])
               THEN [m |-> m, stall |-> e]
               ELSE [m |-> Issue(m, c, e), stall |-> NoOp]
          ELSE [m |-> m, stall |-> NoOp]

\* Core.tick: the machine after it and the new stall_op of the core.
CoreStep(c, jit) ==
  LET m == Machine(jit)
      e == IF global_cycle \in DOMAIN inst[c] THEN inst[c][global_cycle] ELSE NoOp
  IN IF stall_op[c] # NoOp
     THEN IF ~dependency(pending_accesses[c], stall_op[c][1], stall_op[c][2])
          THEN [m |-> Issue(m, c, stall_op[c]), stall |-> NoOp]
          ELSE [m |-> m, stall |-> stall_op[c]]
     ELSE IF e # NoOp
          THEN IF dependency(pending_accesses[c], e[1], e[2])
               THEN [m |-> m, stall |-> e]
               ELSE [m |-> Issue(m, c, e), stall |-> NoOp]
          ELSE [m |-> m, stall |-> NoOp]

\* Nothing is left to do: no request anywhere, no core waiting.
Quiescent ==
  /\ ic_queue = <<>> /\ ctrl_queue = <<>>
  /\ scheduled_ddr_requests = <<>> /\ scheduled_completions = <<>>
  /\ \A c \in Cores : pending_accesses[c] = <<>> /\ stall_op[c] = NoOp

\* A variant of the loop of simulate that is run for the cycles of the traces
\* only, and stops with whatever is left to do.
Running_TraceOnly == global_cycle < TraceLen

\* for cycle in range(cycles): the simulation is run until the traces are
\* over and nothing is left to do, and for MaxCycle cycles at most.
Running == global_cycle < TraceLen \/ (~Quiescent /\ global_cycle < MaxCycle)

CoreTick(c) ==
  /\ pc = CorePc(c)
  /\ c = 0 => Running
  /\ \E jit \in [1 .. CoreStep(c, <<>>).m.nreq -> Jitter] :
       LET r == CoreStep(c, jit)
       IN /\ cache' = r.m.cache
          /\ ic_queue' = r.m.ic_queue
          /\ pending_accesses' = r.m.pending_accesses
          /\ next_id' = r.m.next_id
          /\ hist' = r.m.hist
          /\ stall_op' = [stall_op EXCEPT ![c] = r.stall]
  /\ pc' = IF c + 1 \in Cores THEN CorePc(c + 1) ELSE "interconnect"
  /\ UNCHANGED <<global_cycle, policy, ic_cycle, ctrl_queue, scheduled_ddr_requests,
                 ctrl_cycle, last_command_time, ctrl_bank_open_row,
                 bank_precharge_complete_time, last_access_command, ddr_cycle,
                 bank_states, bank_timers, ddr_bank_open_row,
                 scheduled_completions, inst>>

(***************************************************************************)
(* Interconnect                                                            *)
(***************************************************************************)
\* A variant of the loop of Interconnect.tick without the bandwidth test.
RECURSIVE ForwardLoop_Unlimited(_, _, _)
ForwardLoop_Unlimited(queue, processed, requests_to_forward) ==
  IF queue # <<>> /\ queue[1].key <= ic_cycle
  THEN ForwardLoop_Unlimited(heappop(queue), processed + 1,
                             Append(requests_to_forward, queue[1].req))
  ELSE [queue |-> queue, requests_to_forward |-> requests_to_forward]

\* The while loop of Interconnect.tick: the queue it leaves and the requests
\* to forward.
RECURSIVE ForwardLoop(_, _, _)
ForwardLoop(queue, processed, requests_to_forward) ==
  IF queue # <<>> /\ queue[1].key <= ic_cycle /\ processed < bandwidth
  THEN ForwardLoop(heappop(queue), processed + 1,
                   Append(requests_to_forward, queue[1].req))
  ELSE [queue |-> queue, requests_to_forward |-> requests_to_forward]

\* DDRMemoryController.request, for each request of the list in turn.
RECURSIVE ControllerRequest(_, _)
ControllerRequest(queue, reqs) ==
  IF reqs = <<>> THEN queue
  ELSE ControllerRequest(heappush(queue, [key |-> Head(reqs).time, req |-> Head(reqs)]),
                         Tail(reqs))

InterconnectTick ==
  /\ pc = "interconnect"
  /\ LET r == ForwardLoop(ic_queue, 0, <<>>)
     IN /\ ic_queue' = r.queue
        /\ ctrl_queue' = ControllerRequest(ctrl_queue, r.requests_to_forward)
        /\ hist' = [hist EXCEPT
                       !.forwarded = Len(r.requests_to_forward),
                       !.arrival = @ \o [i \in 1 .. Len(r.requests_to_forward) |->
                                           [id |-> r.requests_to_forward[i].id,
                                            cycle |-> ctrl_cycle]]]
  /\ ic_cycle' = ic_cycle + 1
  /\ pc' = "controller"
  /\ UNCHANGED <<global_cycle, policy, cache, scheduled_ddr_requests, ctrl_cycle,
                 last_command_time, ctrl_bank_open_row,
                 bank_precharge_complete_time, last_access_command, ddr_cycle,
                 bank_states, bank_timers, ddr_bank_open_row,
                 scheduled_completions, pending_accesses, stall_op, inst,
                 next_id>>

(***************************************************************************)
(* DDRMemory                                                               *)
(***************************************************************************)
\* A variant of DDRMemory.request that does not record the row it opens.
DDRMemoryRequest_RowNotOpened(d, req) ==
  LET bank == _get_bank(req.addr)
      row == _get_row(req.addr)
      current_state == d.bank_states[bank]
      busy == IF req.req_type = "read" THEN "READING" ELSE "WRITING"
      queued == [d EXCEPT !.scheduled_completions =
                    heappush(@, [key |-> req.completion_time, req |-> req])]
  IN IF current_state = "IDLE" \/ d.bank_open_row[bank] # row
        \/ current_state = "ACTIVATE_BANK_ROW" \/ current_state = busy
     THEN [queued EXCEPT !.bank_states[bank] = busy,
                         !.bank_timers[bank] = req.completion_time]
     ELSE [queued EXCEPT !.errors = @ \cup {req.id}]

\* A variant of DDRMemory.request that keeps the address, not its row, as
\* the open row.
DDRMemoryRequest_RowOfAddress(d, req) ==
  LET bank == _get_bank(req.addr)
      row == req.addr
      current_state == d.bank_states[bank]
      busy == IF req.req_type = "read" THEN "READING" ELSE "WRITING"
      queued == [d EXCEPT !.scheduled_completions =
                    heappush(@, [key |-> req.completion_time, req |-> req])]
  IN IF req.req_type \in {"read", "write"}
     THEN IF current_state = "IDLE" \/ d.bank_open_row[bank] # row
          THEN [queued EXCEPT !.bank_states[bank] = busy,
                              !.bank_timers[bank] = req.completion_time,
                              !.bank_open_row[bank] = row]
          ELSE IF current_state = "ACTIVATE_BANK_ROW" \/ current_state = busy
               THEN [queued EXCEPT !.bank_states[bank] = busy,
                                   !.bank_timers[bank] = req.completion_time]
               ELSE [queued EXCEPT !.errors = @ \cup {req.id}]
     ELSE queued

\* A variant of the request in which a bank that has to open a row precharges
\* first.
DDRMemoryRequest_Precharges(d, req) ==
  LET bank == _get_bank(req.addr)
      row == _get_row(req.addr)
      current_state == d.bank_states[bank]
      busy == IF req.req_type = "read" THEN "READING" ELSE "WRITING"
      queued == [d EXCEPT !.scheduled_completions =
                    heappush(@, [key |-> req.completion_time, req |-> req])]
  IN IF req.req_type \in {"read", "write"}
     THEN IF current_state = "IDLE" \/ d.bank_open_row[bank] # row
          THEN [queued EXCEPT !.bank_states[bank] = "PRECHARGING",
                              !.bank_timers[bank] = req.completion_time,
                              !.bank_open_row[bank] = row]
          ELSE IF current_state = "ACTIVATE_BANK_ROW" \/ current_state = busy
               THEN [queued EXCEPT !.bank_states[bank] = busy,
                                   !.bank_timers[bank] = req.completion_time]
               ELSE [queued EXCEPT !.errors = @ \cup {req.id}]
     ELSE queued

\* DDRMemory.request: the DDR state after the command req.
DDRMemoryRequest(d, req) ==
  LET bank == _get_bank(req.addr)
      row == _get_row(req.addr)
      current_state == d.bank_states[bank]
      busy == IF req.req_type = "read" THEN "READING" ELSE "WRITING"
      queued == [d EXCEPT !.scheduled_completions =
                    heappush(@, [key |-> req.completion_time, req |-> req])]
  IN IF req.req_type \in {"read", "write"}
     THEN IF current_state = "IDLE" \/ d.bank_open_row[bank] # row
          THEN [queued EXCEPT !.bank_states[bank] = busy,
                              !.bank_timers[bank] = req.completion_time,
                              !.bank_open_row[bank] = row]
          ELSE IF current_state = "ACTIVATE_BANK_ROW" \/ current_state = busy
               THEN [queued EXCEPT !.bank_states[bank] = busy,
                                   !.bank_timers[bank] = req.completion_time]
               ELSE \* ERROR: Cannot READ from / WRITE to the bank in this state
                    [queued EXCEPT !.errors = @ \cup {req.id}]
     ELSE queued

\* The while loop of DDRMemory.tick over the completion heap.
RECURSIVE CompletionLoop(_)
CompletionLoop(d) ==
  IF d.scheduled_completions # <<>> /\ d.scheduled_completions[1].key <= ddr_cycle
  THEN LET req == d.scheduled_completions[1].req
           bank == _get_bank(req.addr)
           popped == [d EXCEPT !.scheduled_completions = heappop(@)]
       IN CompletionLoop(
            IF popped.bank_states[bank] \in {"READING", "WRITING"}
            THEN [popped EXCEPT !.bank_states[bank] = "ACTIVATE_BANK_ROW",
                                !.bank_timers[bank] = 0]
            ELSE popped)
  ELSE d

\* A variant of the timer loop in which a bank whose access is over closes
\* its row.
RECURSIVE TimerLoop_ClosesRow(_, _)
TimerLoop_ClosesRow(d, i) ==
  IF i >= num_banks THEN d
  ELSE TimerLoop_ClosesRow(
         IF d.bank_timers[i] > ddr_cycle THEN d
         ELSE IF d.bank_states[i] = "ACTIVATE_BANK_ROW"
              THEN [d EXCEPT !.bank_open_row[i] = None]
              ELSE d,
         i + 1)

\* The for loop of DDRMemory.tick over the banks' timers, bank i onwards.
RECURSIVE TimerLoop(_, _)
TimerLoop(d, i) ==
  IF i >= num_banks THEN d
  ELSE TimerLoop(
         IF d.bank_timers[i] > ddr_cycle THEN d
         ELSE IF d.bank_states[i] = "ACTIVATE_BANK_ROW" THEN d
         ELSE IF d.bank_states[i] = "PRECHARGING" /\ d.bank_timers[i] <= ddr_cycle
              THEN [d EXCEPT !.bank_states[i] = "IDLE", !.bank_open_row[i] = None]
              ELSE d,
         i + 1)

DDR == [bank_states |-> bank_states, bank_timers |-> bank_timers,
        bank_open_row |-> ddr_bank_open_row,
        scheduled_completions |-> scheduled_completions,
        errors |-> hist.errored]

\* DDRMemory.tick, and the end of the body of simulate's loop: global_cycle += 1.
DDRTick ==
  /\ pc = "ddr"
  /\ LET d == TimerLoop(CompletionLoop(DDR), 0)
     IN /\ bank_states' = d.bank_states
        /\ bank_timers' = d.bank_timers
        /\ ddr_bank_open_row' = d.bank_open_row
        /\ scheduled_completions' = d.scheduled_completions
  /\ ddr_cycle' = ddr_cycle + 1
  /\ global_cycle' = global_cycle + 1
  /\ pc' = "core0"
  /\ UNCHANGED <<policy, cache, ic_queue, ic_cycle, ctrl_queue,
                 scheduled_ddr_requests, ctrl_cycle, last_command_time,
                 ctrl_bank_open_row, bank_precharge_complete_time,
                 last_access_command, pending_accesses, stall_op, inst,
                 next_id, hist>>

(***************************************************************************)
(* DDRMemoryController                                                     *)
(***************************************************************************)
\* A variant of _complete_ddr_requests that removes nothing from the
\* in-flight list.
StillInFlight_KeepAll(infos) == infos

\* A variant of the loop that does not wait for completion_time.
RECURSIVE CompleteLoop_Early(_, _)
CompleteLoop_Early(m, infos) ==
  IF infos = <<>> THEN m
  ELSE LET req == Head(infos).request
       IN CompleteLoop_Early(
            IF req.req_type = "read" /\ req.callback # NoCallback
            THEN Invoke([m EXCEPT !.req = req,
                                   !.hist.completed =
                                      Append(@, [id |-> req.id, cycle |-> ctrl_cycle])],
                        req.callback, req.addr)
            ELSE m,
            Tail(infos))

\* The first loop of _complete_ddr_requests over the in-flight list: the
\* callbacks of the completed reads run in the order of the list.
RECURSIVE CompleteLoop(_, _)
CompleteLoop(m, infos) ==
  IF infos = <<>> THEN m
  ELSE LET req == Head(infos).request
       IN CompleteLoop(
            IF req.completion_time <= ctrl_cycle
               /\ req.req_type = "read" /\ req.callback # NoCallback
            THEN Invoke([m EXCEPT !.req = req,
                                   !.hist.completed =
                                      Append(@, [id |-> req.id, cycle |-> ctrl_cycle])],
                        req.callback, req.addr)
            ELSE m,
            Tail(infos))

\* The second loop: the completed entries are removed from the list.
Completed(info) == info.request.completion_time <= ctrl_cycle
StillInFlight(infos) == SelectSeq(infos, LAMBDA info : ~Completed(info))

\* A variant of the candidate test without the command-to-command delay.
Candidate_NoSpacing(item) ==
  LET bank == _get_bank(item.req.addr)
  IN ~(bank_precharge_complete_time[bank] > ctrl_cycle)

\* A variant of the candidate test that does not look at the precharge.
Candidate_NoPrecharge(item) ==
  LET bank == _get_bank(item.req.addr)
      last_cmd_time == IF last_command_time[bank] = None THEN -tRC
                       ELSE last_command_time[bank]
  IN ~(ctrl_cycle < last_cmd_time + tCCD)

\* The candidates of _schedule_next_request, in the order of the queue.
Candidate(item) ==
  LET bank == _get_bank(item.req.addr)
      last_cmd_time == IF last_command_time[bank] = None THEN -tRC
                       ELSE last_command_time[bank]
  IN /\ ~(bank_precharge_complete_time[bank] > ctrl_cycle)
     /\ ~(ctrl_cycle < last_cmd_time + tCCD)

Candidates(queue) == SelectSeq(queue, Candidate)

\* The key of candidates.sort.
SortKey(req) ==
  <<IF ctrl_bank_open_row[_get_bank(req.addr)] = _get_row(req.addr) THEN 0 ELSE 1,
    IF req.req_type = "read" THEN 0 ELSE 1,
    req.time>>

KeyLt(a, b) ==
  \/ a[1] < b[1]
  \/ a[1] = b[1] /\ a[2] < b[2]
  \/ a[1] = b[1] /\ a[2] = b[2] /\ a[3] < b[3]

\* A variant that takes the first candidate of the queue, without the sort.
BestCandidate_Unsorted(candidates) == candidates[1].req

\* candidates[0] after the (stable) sort.
BestCandidate(candidates) ==
  LET least == {i \in 1 .. Len(candidates) :
                  \A j \in 1 .. Len(candidates) :
                     ~KeyLt(SortKey(candidates[j].req), SortKey(candidates[i].req))}
  IN candidates[Min(least)].req

\* A variant of the delay without the transition penalty.
Delay_NoPenalty(req) ==
  LET bank == _get_bank(req.addr)
      row == _get_row(req.addr)
  IN IF ctrl_bank_open_row[bank] = row THEN row_hit_latency
     ELSE tRP + tRCD + tCAS

\* The delay of the chosen request: row hit or row miss, plus the
\* transition penalty.
Delay(req) ==
  LET bank == _get_bank(req.addr)
      row == _get_row(req.addr)
      access == IF ctrl_bank_open_row[bank] = row THEN row_hit_latency
                ELSE tRP + tRCD + tCAS
      penalty == IF last_access_command[bank] = "write" /\ req.req_type = "read"
                 THEN tWR
                 ELSE IF last_access_command[bank] = "read" /\ req.req_type = "write"
                      THEN tWR + 2
                      ELSE 0
  IN access + penalty

\* A variant of the removal that leaves the chosen request in the queue.
RemoveRequest_Keep(queue, best_req) == heapify(queue)

\* The removal of the chosen request from the queue, and heapify.
RemoveRequest(queue, best_req) ==
  LET i == Min({j \in 1 .. Len(queue) : queue[j].req.id = best_req.id})
  IN heapify(SubSeq(queue, 1, i - 1) \o SubSeq(queue, i + 1, Len(queue)))

\* best_req of _schedule_next_request as it is passed to the DDR, with its
\* time and completion_time set; NoRequest when nothing is scheduled.
NextCommand ==
  LET candidates == Candidates(ctrl_queue)
  IN IF ctrl_queue = <<>> \/ candidates = <<>> THEN NoRequest
     ELSE LET chosen == BestCandidate(candidates)
          IN [chosen EXCEPT !.time = ctrl_cycle,
                            !.completion_time = ctrl_cycle + Delay(chosen)]

\* A variant of the tick that schedules before it completes: the command of
\* this cycle is already in the list the completion loop goes through.
ControllerStep_ScheduleFirst(jit) ==
  CompleteLoop(Machine(jit),
               IF NextCommand = NoRequest THEN scheduled_ddr_requests
               ELSE Append(scheduled_ddr_requests, [request |-> NextCommand]))

\* DDRMemoryController.tick: _complete_ddr_requests, _schedule_next_request,
\* cycle += 1.
ControllerStep(jit) == CompleteLoop(Machine(jit), scheduled_ddr_requests)

\* The cycle of the controller at which request id was given to it.
Arrival(id) ==
  LET i == CHOOSE i \in 1 .. Len(hist.arrival) : hist.arrival[i].id = id
  IN hist.arrival[i].cycle

\* The entry of the history for the command of this tick: what was chosen, in
\* which state of the bank, and among which candidates.
CommandEntry ==
  LET candidates == Candidates(ctrl_queue)
      bank == _get_bank(NextCommand.addr)
      row == _get_row(NextCommand.addr)
  IN [id |-> NextCommand.id, bank |-> bank, row |-> row, cycle |-> ctrl_cycle,
      open_row |-> ctrl_bank_open_row[bank],
      precharge_complete_time |-> bank_precharge_complete_time[bank],
      kind |-> NextCommand.req_type,
      last_kind |-> last_access_command[bank],
      completion_time |-> NextCommand.completion_time,
      state |-> bank_states[bank],
      cands |-> {[id |-> candidates[i].req.id,
                  hit |-> ctrl_bank_open_row[_get_bank(candidates[i].req.addr)]
                             = _get_row(candidates[i].req.addr),
                  kind |-> candidates[i].req.req_type,
                  time |-> candidates[i].req.time,
                  arrived |-> Arrival(candidates[i].req.id)] :
                 i \in 1 .. Len(candidates)}]

ControllerTick ==
  /\ pc = "controller"
  /\ \E jit \in [1 .. ControllerStep(<<>>).nreq -> Jitter] :
       LET m == ControllerStep(jit)
       IN /\ cache' = m.cache
          /\ ic_queue' = m.ic_queue
          /\ pending_accesses' = m.pending_accesses
          /\ next_id' = m.next_id
          /\ hist' = IF NextCommand = NoRequest THEN m.hist
                     ELSE [m.hist EXCEPT
                             !.commands = Append(@, CommandEntry),
                             !.errored = DDRMemoryRequest(DDR, NextCommand).errors]
  /\ IF NextCommand = NoRequest
     THEN /\ scheduled_ddr_requests' = StillInFlight(scheduled_ddr_requests)
          /\ UNCHANGED <<ctrl_queue, last_command_time, ctrl_bank_open_row,
                         bank_precharge_complete_time, last_access_command,
                         bank_states, bank_timers, ddr_bank_open_row,
                         scheduled_completions>>
     ELSE LET best_req == NextCommand
              bank == _get_bank(best_req.addr)
              row == _get_row(best_req.addr)
              row_hit == ctrl_bank_open_row[bank] = row
              d == DDRMemoryRequest(DDR, best_req)
          IN /\ bank_precharge_complete_time' =
                  IF row_hit THEN bank_precharge_complete_time
                  ELSE [bank_precharge_complete_time EXCEPT ![bank] = ctrl_cycle + tRP]
             /\ ctrl_bank_open_row' = [ctrl_bank_open_row EXCEPT ![bank] = row]
             /\ last_command_time' = [last_command_time EXCEPT ![bank] = ctrl_cycle]
             /\ last_access_command' =
                  [last_access_command EXCEPT ![bank] = best_req.req_type]
             /\ ctrl_queue' = RemoveRequest(ctrl_queue, best_req)
             /\ bank_states' = d.bank_states
             /\ bank_timers' = d.bank_timers
             /\ ddr_bank_open_row' = d.bank_open_row
             /\ scheduled_completions' = d.scheduled_completions
             /\ scheduled_ddr_requests' =
                  Append(StillInFlight(scheduled_ddr_requests),
                         [request |-> best_req, bank |-> bank, row |-> row,
                          status |-> IF row_hit THEN "ROW HIT" ELSE "ROW MISS"])
  /\ ctrl_cycle' = ctrl_cycle + 1
  /\ pc' = "ddr"
  /\ UNCHANGED <<global_cycle, policy, ic_cycle, ddr_cycle, stall_op, inst>>

(***************************************************************************)
(* Experiment.simulate                                                     *)
(***************************************************************************)
Next ==
  \/ \E c \in Cores : CoreTick(c)
  \/ InterconnectTick
  \/ ControllerTick
  \/ DDRTick

Spec == Init /\ [][Next]_vars

\* One step of the body of simulate's loop, as far as the position in the
\* loop goes.  Every step of Next is such a step, and one is possible exactly
\* when a step of Next is, the handlers being total.
Advance ==
  /\ pc = "core0" => Running
  /\ pc' = CASE pc = "core0" -> "core1"
             [] pc = "core1" -> "interconnect"
             [] pc = "interconnect" -> "controller"
             [] pc = "controller" -> "ddr"
             [] OTHER -> "core0"

\* The simulation loop does not stop between two cycles that are to be run.
LiveSpec == Init /\ [][Next]_vars /\ WF_pc(Advance)

(***************************************************************************)
(* Construction of the components, and the PLRU tree, on their own         *)
(***************************************************************************)
\* The arguments the constructors are tried with.
Sizes == {0, 8, 12, 16, 24, 32, 48}
LineSizes == {0, 1, 4}
Assocs == {0, 1, 2, 3, 4, 6}
BankCounts == -1 .. 4
PLRUWays == {2, 4, 8}

\* CacheLevel.__init__(size, line_size, assoc): the only statement that can
\* raise is num_sets = (size // line_size) // assoc (ZeroDivisionError); no
\* argument is checked, and PLRU(assoc) is built for any assoc.
NewCacheLevel(size, ls, ways) ==
  IF ls = 0 \/ ways = 0
  THEN [error |-> TRUE, num_sets |-> None, plru_bits |-> None]
  ELSE [error |-> FALSE, num_sets |-> (size \div ls) \div ways,
        plru_bits |-> Max2(ways - 1, 0)]

\* DDRMemory.__init__(num_banks): lists of num_banks elements ([x] * n is
\* empty for n <= 0), nothing is checked and nothing raises.
NewDDRMemory(n) ==
  [error |-> FALSE, num_sets |-> None, plru_bits |-> None]

UnitHist(op, args, outcome, ways, bits, way) ==
  [op |-> op, args |-> args, outcome |-> outcome, ways |-> ways, bits |-> bits,
   way |-> way]

NoOutcome == [error |-> FALSE, num_sets |-> None, plru_bits |-> None]

UnitInit ==
  /\ pc = "unit"
  /\ hist = UnitHist("none", <<>>, NoOutcome, None, <<>>, None)
  /\ global_cycle = 0
  /\ policy = [k \in Levels |-> Default]
  /\ cache = [k \in Levels |-> CacheLevel(k)]
  /\ ic_queue = <<>>
  /\ ic_cycle = 0
  /\ ctrl_queue = <<>>
  /\ scheduled_ddr_requests = <<>>
  /\ ctrl_cycle = 0
  /\ last_command_time = [b \in Banks |-> None]
  /\ ctrl_bank_open_row = [b \in Banks |-> None]
  /\ bank_precharge_complete_time = [b \in Banks |-> 0]
  /\ last_access_command = [b \in Banks |-> "none"]
  /\ ddr_cycle = 0
  /\ bank_states = [b \in Banks |-> "IDLE"]
  /\ bank_timers = [b \in Banks |-> 0]
  /\ ddr_bank_open_row = [b \in Banks |-> None]
  /\ scheduled_completions = <<>>
  /\ pending_accesses = [c \in Cores |-> <<>>]
  /\ stall_op = [c \in Cores |-> NoOp]
  /\ inst = [c \in Cores |-> [t \in 0 .. (TraceLen - 1) |-> NoOp]]
  /\ next_id = 1

UnitUnchanged ==
  UNCHANGED <<global_cycle, pc, policy, cache, ic_queue, ic_cycle, ctrl_queue,
              scheduled_ddr_requests, ctrl_cycle, last_command_time,
              ctrl_bank_open_row, bank_precharge_complete_time,
              last_access_command, ddr_cycle, bank_states, bank_timers,
              ddr_bank_open_row, scheduled_completions, pending_accesses,
              stall_op, inst, next_id>>

\* CacheLevel(level_name, core_id, size, line_size, assoc)
ConstructCacheLevel ==
  /\ pc = "unit"
  /\ \E size \in Sizes, ls \in LineSizes, ways \in Assocs :
       hist' = UnitHist("CacheLevel", <<size, ls, ways>>,
                        NewCacheLevel(size, ls, ways), None, <<>>, None)
  /\ UnitUnchanged

\* DDRMemory(num_banks)
ConstructDDRMemory ==
  /\ pc = "unit"
  /\ \E n \in BankCounts :
       hist' = UnitHist("DDRMemory", <<n>>, NewDDRMemory(n), None, <<>>, None)
  /\ UnitUnchanged

\* PLRU(ways)
ConstructPLRU ==
  /\ pc = "unit"
  /\ \E ways \in PLRUWays :
       hist' = UnitHist("PLRU", <<ways>>, NoOutcome, ways, PLRU(ways), None)
  /\ UnitUnchanged

\* plru.update_on_access(way), on the tree built last
AccessPLRU ==
  /\ pc = "unit"
  /\ hist.op \in {"PLRU", "update_on_access"}
  /\ \E way \in 0 .. (hist.ways - 1) :
       hist' = UnitHist("update_on_access", hist.args, NoOutcome, hist.ways,
                        update_on_access(hist.bits, hist.ways, way), way)
  /\ UnitUnchanged

UnitNext ==
  \/ ConstructCacheLevel
  \/ ConstructDDRMemory
  \/ ConstructPLRU
  \/ AccessPLRU

UnitSpec == UnitInit /\ [][UnitNext]_vars

(***************************************************************************)
(* The cache hierarchy on its own: the cores issue reads and writes as     *)
(* Core.tick does when it does not stall, and the memory side completes    *)
(* the requests it was given, one at a time and in any order.  The levels  *)
(* have the policies Experiment constructs them with.                      *)
(***************************************************************************)
\* At most MaxCacheOps reads and writes are issued, MaxCacheOps1 of them by
\* core 1.
MaxCacheOps == 4
MaxCacheOps1 == 1

OpsIssued == Len(hist.issued[0]) + Len(hist.issued[1])

CacheInit ==
  /\ pc = "cache"
  /\ policy = [k \in Levels |-> Default]
  /\ global_cycle = 0
  /\ cache = [k \in Levels |-> CacheLevel(k)]
  /\ ic_queue = <<>>
  /\ ic_cycle = 0
  /\ ctrl_queue = <<>>
  /\ scheduled_ddr_requests = <<>>
  /\ ctrl_cycle = 0
  /\ last_command_time = [b \in Banks |-> None]
  /\ ctrl_bank_open_row = [b \in Banks |-> None]
  /\ bank_precharge_complete_time = [b \in Banks |-> 0]
  /\ last_access_command = [b \in Banks |-> "none"]
  /\ ddr_cycle = 0
  /\ bank_states = [b \in Banks |-> "IDLE"]
  /\ bank_timers = [b \in Banks |-> 0]
  /\ ddr_bank_open_row = [b \in Banks |-> None]
  /\ scheduled_completions = <<>>
  /\ pending_accesses = [c \in Cores |-> <<>>]
  /\ stall_op = [c \in Cores |-> NoOp]
  /\ inst = [c \in Cores |-> [t \in 0 .. (TraceLen - 1) |-> NoOp]]
  /\ next_id = 1
  /\ hist = [evicted |-> [k \in Levels |-> <<>>],
             written_back |-> [k \in Levels |-> <<>>],
             calls |-> [k \in Levels |-> 0],
             missed |-> [k \in Levels |-> {}],
             next_mid |-> 1,
             fills |-> <<>>,
             callbacks |-> [c \in Cores |-> 0],
             issued |-> [c \in Cores |-> <<>>],
             forwarded |-> 0,
             arrival |-> <<>>,
             commands |-> <<>>,
             completed |-> <<>>,
             errored |-> {}]

CacheUnchanged ==
  UNCHANGED <<global_cycle, pc, policy, ic_cycle, ctrl_queue,
              scheduled_ddr_requests, ctrl_cycle, last_command_time,
              ctrl_bank_open_row, bank_precharge_complete_time,
              last_access_command, ddr_cycle, bank_states, bank_timers,
              ddr_bank_open_row, scheduled_completions, stall_op, inst>>

\* The branch of Core.tick that issues the op: there is no dependency.
CacheAccess ==
  /\ pc = "cache"
  /\ OpsIssued < MaxCacheOps
  /\ \E c \in Cores, e \in Ops :
       /\ c = 1 => Len(hist.issued[1]) < MaxCacheOps1
       /\ ~dependency(pending_accesses[c], e[1], e[2])
       /\ LET m == Issue(Machine(<<>>), c, e)
          IN /\ cache' = m.cache
             /\ ic_queue' = m.ic_queue
             /\ pending_accesses' = m.pending_accesses
             /\ next_id' = m.next_id
             /\ hist' = m.hist
  /\ CacheUnchanged

\* What the interconnect, the controller and the DDR do with a request in the
\* end: a read has its callback invoked by _complete_ddr_requests, a write
\* has none.
MemoryDone ==
  /\ pc = "cache"
  /\ \E i \in 1 .. Len(ic_queue) :
       LET req == [ic_queue[i].req EXCEPT !.completion_time = ctrl_cycle]
           rest == RemoveRequest(ic_queue, req)
           taken == [Machine(<<>>) EXCEPT !.ic_queue = rest, !.req = req]
           m == IF req.req_type = "read" /\ req.callback # NoCallback
                THEN Invoke(taken, req.callback, req.addr)
                ELSE taken
       IN /\ cache' = m.cache
          /\ ic_queue' = m.ic_queue
          /\ pending_accesses' = m.pending_accesses
          /\ next_id' = m.next_id
          /\ hist' = m.hist
  /\ CacheUnchanged

CacheNext == CacheAccess \/ MemoryDone

CacheSpec == CacheInit /\ [][CacheNext]_vars

(***************************************************************************)
(* Properties                                                              *)
(***************************************************************************)
Lines(k, index) == cache[k].lines[index]

\* Every request that is somewhere between the caches and its completion.
RECURSIVE SeqToSet(_)
SeqToSet(q) == IF q = <<>> THEN {} ELSE {Head(q)} \cup SeqToSet(Tail(q))

InInterconnect == {item.req : item \in SeqToSet(ic_queue)}
InController == {item.req : item \in SeqToSet(ctrl_queue)}
InFlight == {info.request : info \in SeqToSet(scheduled_ddr_requests)}
Requests == InInterconnect \cup InController \cup InFlight

\* The misses whose fill continuation is held by a request.
Outstanding == {f.mid : f \in {g \in UNION {SeqToSet(r.callback) : r \in Requests} :
                                  g.type = "fill"}}
Filled == {hist.fills[i].mid : i \in 1 .. Len(hist.fills)}

ReadsIssued(c) ==
  Cardinality({i \in 1 .. Len(hist.issued[c]) : hist.issued[c][i][2] = "read"})

\* A step of Core.tick of core c.
CoreTicks(c) == pc = CorePc(c) /\ pc' # pc
Entry(c) == IF global_cycle \in DOMAIN inst[c] THEN inst[c][global_cycle] ELSE NoOp
\* The hazard rule: a pending access to the same address, of another kind.
Hazard(c, e) ==
  \E i \in 1 .. Len(pending_accesses[c]) :
     pending_accesses[c][i][2] = e[2] /\ pending_accesses[c][i][1] # e[1]
IssuedNow(c, e) ==
  hist'.issued[c] = Append(hist.issued[c], <<global_cycle, e[1], e[2]>>)
NothingIssued(c) == hist'.issued[c] = hist.issued[c]

\* C1: in every set of every cache level, no two valid lines hold the same
\* tag, in every reachable state.
C1_NoDuplicateTag ==
  \A k \in Levels : \A index \in Sets(k) : \A w1, w2 \in Ways(k) :
     (w1 # w2 /\ Lines(k, index)[w1].valid /\ Lines(k, index)[w2].valid)
        => Lines(k, index)[w1].tag # Lines(k, index)[w2].tag

\* C2: every read a core issues eventually has its completion callback
\* invoked, and no read request stays for ever in the interconnect queue,
\* the controller queue or the in-flight list: again and again, every read
\* issued so far has had its callback and no read request is left.
AllReadsComplete ==
  /\ \A c \in Cores : hist.callbacks[c] = ReadsIssued(c) /\ pending_accesses[c] = <<>>
  /\ \A r \in Requests : r.req_type # "read"

C2_ReadsComplete == []<>AllReadsComplete

C2_Witness ==
  /\ \E i \in 1 .. Len(hist.fills) : hist.fills[i].lvl = "L2"
  /\ hist.callbacks[0] >= 1
  /\ pending_accesses[0] = <<>>

\* C3: the fill continuation of every read miss runs exactly once, and only
\* after the lower level has delivered: a miss is either still held by a
\* request and has not been filled, or it has been filled once, and every
\* fill found the data arrived; at the end of the simulation no miss is left.
C3_FillOnce ==
  /\ \A i, j \in 1 .. Len(hist.fills) :
        hist.fills[i].mid = hist.fills[j].mid => i = j
  /\ \A k \in Levels : \A mid \in hist.missed[k] :
        (mid \in Filled) # (mid \in Outstanding)
  /\ \A i \in 1 .. Len(hist.fills) :
        /\ hist.fills[i].data
        /\ hist.fills[i].mid \in hist.missed[hist.fills[i].lvl]
  /\ (pc = "core0" /\ ~Running) => Outstanding = {}

C3_Witness ==
  /\ \E i \in 1 .. Len(hist.fills) : hist.fills[i].lvl = "L2"
  /\ \E i \in 1 .. Len(hist.fills) : hist.fills[i].lvl = "L1_0"
  /\ Cardinality(hist.missed["L1_0"]) >= 2
  /\ \E i, j \in 1 .. Len(hist.fills) :
        i < j /\ hist.fills[i].lvl = "L2" /\ hist.fills[j].lvl = "L1_0"
  /\ Outstanding = {}

\* C4: a write-back is emitted for every valid dirty line that is
\* overwritten, and for no other victim: at every level the write-backs
\* emitted are as many as the dirty lines overwritten.
C4_WriteBackPerDirtyEviction ==
  \A k \in Levels : Len(hist.written_back[k]) = Len(hist.evicted[k])

\* a read miss and then a write miss chose the same victim slot, and the fill
\* of the read has overwritten the dirty line of the write
C4_Witness ==
  /\ Len(hist.issued[0]) >= 2
  /\ hist.issued[0][1][2] = "read"
  /\ hist.issued[0][2][2] = "write"
  /\ hist.evicted["L1_0"] # <<>>
  /\ hist.evicted["L1_0"][1].by = "fill"
  /\ Len(hist.written_back["L1_0"]) = 1
  /\ cache["L1_0"].misses > Len(hist.evicted["L1_0"])

\* C5: the address of every write-back has the tag that the overwritten line
\* held and the index of its set.
C5_WriteBackAddress ==
  \A k \in Levels : \A i \in 1 .. Len(hist.written_back[k]) :
     /\ i <= Len(hist.evicted[k])
     /\ _tag(k, hist.written_back[k][i]) = hist.evicted[k][i].tag
     /\ _index(k, hist.written_back[k][i]) = hist.evicted[k][i].index
     /\ hist.written_back[k][i] =
          ((hist.evicted[k][i].tag * num_sets(k)) + hist.evicted[k][i].index)
             * line_size(k)

\* a write-back on the fill path whose line held another tag than the one
\* that replaced it
C5_Witness ==
  \E i \in 1 .. Len(hist.evicted["L1_0"]) :
     /\ hist.evicted["L1_0"][i].by = "fill"
     /\ i <= Len(hist.written_back["L1_0"])
     /\ hist.written_back["L1_0"][i] > 0
     /\ \E w \in Ways("L1_0") :
           /\ Lines("L1_0", hist.evicted["L1_0"][i].index)[w].valid
           /\ Lines("L1_0", hist.evicted["L1_0"][i].index)[w].tag
                 # hist.evicted["L1_0"][i].tag

\* C6: in every reachable state, a line that is dirty is valid.
C6_DirtyImpliesValid ==
  \A k \in Levels : \A index \in Sets(k) : \A w \in Ways(k) :
     Lines(k, index)[w].dirty => Lines(k, index)[w].valid

C6_Witness ==
  /\ \E index \in Sets("L2") : \E w \in Ways("L2") : Lines("L2", index)[w].dirty
  /\ \E index \in Sets("L1_0") : \E w \in Ways("L1_0") :
        Lines("L1_0", index)[w].valid /\ ~Lines("L1_0", index)[w].dirty

\* C7: the trace op a core looks up at its issue cycle is stalled if and only
\* if a pending access has its address and another kind, and is issued
\* otherwise (so a read is issued while a read of its address is pending);
\* a core whose trace addresses are pairwise distinct never stalls.
DistinctAddresses(c) ==
  \A i, j \in DOMAIN inst[c] :
     (i # j /\ inst[c][i] # NoOp /\ inst[c][j] # NoOp) => inst[c][i][2] # inst[c][j][2]

C7_StallIffHazard ==
  /\ [][\A c \in Cores :
          (CoreTicks(c) /\ stall_op[c] = NoOp /\ Entry(c) # NoOp)
             => IF Hazard(c, Entry(c))
                THEN stall_op'[c] = Entry(c) /\ NothingIssued(c)
                ELSE stall_op'[c] = NoOp /\ IssuedNow(c, Entry(c))]_vars
  /\ [](\A c \in Cores : DistinctAddresses(c) => stall_op[c] = NoOp)

\* a write stalled behind two pending reads of its address, the second of
\* which was issued while the first was pending
C7_Witness ==
  /\ stall_op[0] = <<"write", 12>>
  /\ pending_accesses[0] = <<<<"read", 12>>, <<"read", 12>>>>

\* C8: a write stalled on a pending read of its address is not issued as long
\* as a read of that address is pending, and is issued, once, clearing
\* stall_op, at the first tick of the core at which none is.
C8_StalledWrite ==
  [][\A c \in Cores :
       (CoreTicks(c) /\ stall_op[c] # NoOp /\ stall_op[c][1] = "write")
          => IF \E i \in 1 .. Len(pending_accesses[c]) :
                   pending_accesses[c][i] = <<"read", stall_op[c][2]>>
             THEN /\ stall_op'[c] = stall_op[c]
                  /\ NothingIssued(c)
                  /\ hist'.calls = hist.calls
             ELSE /\ stall_op'[c] = NoOp
                  /\ IssuedNow(c, stall_op[c])
                  /\ hist'.calls[L1(c)] = hist.calls[L1(c)] + 1]_vars

\* a write that stalled has been issued, after the callback of the read
C8_Witness ==
  /\ stall_op[0] = NoOp
  /\ hist.callbacks[0] >= 1
  /\ \E i \in 1 .. Len(hist.issued[0]) :
        /\ hist.issued[0][i][2] = "write"
        /\ hist.issued[0][i][1] >= TraceLen

C10_Bandwidth ==
  [][(pc = "interconnect" /\ pc' # pc)
       => /\ Len(ctrl_queue') - Len(ctrl_queue) <= bandwidth
          /\ Len(ic_queue) - Len(ic_queue') <= bandwidth
          /\ Len(ic_queue) + Len(ctrl_queue) = Len(ic_queue') + Len(ctrl_queue')
          /\ \A r \in InInterconnect :
                \/ \E i \in 1 .. Len(ic_queue') : ic_queue'[i].req = r
                \/ \E i \in 1 .. Len(ctrl_queue') : ctrl_queue'[i].req = r]_vars

\* the interconnect has forwarded bandwidth requests and holds another one
\* that was ready
C10_Witness ==
  /\ pc = "controller"
  /\ hist.forwarded = bandwidth
  /\ ic_queue # <<>>
  /\ ic_queue[1].key < ic_cycle

Commands == 1 .. Len(hist.commands)

\* C11: any two commands the controller schedules to the same bank at cycles
\* c1 < c2 have c2 >= c1 + tCCD.
C11_CommandSpacing ==
  \A i, j \in Commands :
     (hist.commands[i].bank = hist.commands[j].bank
        /\ hist.commands[i].cycle < hist.commands[j].cycle)
       => hist.commands[j].cycle >= hist.commands[i].cycle + tCCD

\* two commands to one bank exactly tCCD cycles apart
C11_Witness ==
  \E i, j \in Commands :
     /\ hist.commands[i].bank = hist.commands[j].bank
     /\ hist.commands[j].cycle = hist.commands[i].cycle + tCCD

\* The transition penalty of a command of kind after a command of last_kind.
Penalty(last_kind, kind) ==
  IF last_kind = "write" /\ kind = "read" THEN tWR
  ELSE IF last_kind = "read" /\ kind = "write" THEN tWR + 2
  ELSE 0

\* C12: a request scheduled as a row miss (the controller's open row of its
\* bank is another row, or none) completes tRP + tRCD + tCAS cycles after the
\* cycle it is scheduled at, plus tWR for a read after a write to the bank,
\* plus tWR + 2 for a write after a read, plus nothing otherwise.
C12_RowMissLatency ==
  \A i \in Commands :
     hist.commands[i].open_row # hist.commands[i].row
       => hist.commands[i].completion_time - hist.commands[i].cycle
            = tRP + tRCD + tCAS
                + Penalty(hist.commands[i].last_kind, hist.commands[i].kind)

\* row misses on a bank that had no command, of a write after a read, and of
\* a read after a write
C12_Witness ==
  /\ \E i \in Commands : /\ hist.commands[i].open_row = None
                          /\ hist.commands[i].last_kind = "none"
  /\ \E i \in Commands : /\ hist.commands[i].open_row \notin {None, hist.commands[i].row}
                          /\ hist.commands[i].last_kind = "read"
                          /\ hist.commands[i].kind = "write"
  /\ \E i \in Commands : /\ hist.commands[i].open_row \notin {None, hist.commands[i].row}
                          /\ hist.commands[i].last_kind = "write"
                          /\ hist.commands[i].kind = "read"

\* The candidate that the command i is, among the candidates of its tick.
Chosen(i) == CHOOSE c \in hist.commands[i].cands : c.id = hist.commands[i].id

\* The rank of a candidate: row hit before row miss, read before write.
Rank(c) == <<IF c.hit THEN 0 ELSE 1, IF c.kind = "read" THEN 0 ELSE 1>>

\* C13 as stated: the request the controller schedules is minimal among the
\* candidates of its queue under the key (row hit first, read first, oldest
\* first), the age being the cycle at which the request arrived at the
\* controller.
C13_MinimalByArrival ==
  \A i \in Commands : \A c \in hist.commands[i].cands :
     ~KeyLt(Rank(c) \o <<c.arrived>>, Rank(Chosen(i)) \o <<Chosen(i).arrived>>)

\* C13 amended: the request the controller schedules is minimal among the
\* candidates under the key (row hit first, read first, smallest time first),
\* time being the field of the request: the cycle of the interconnect at
\* which the cache created it.
C13_MinimalByTime ==
  \A i \in Commands :
     /\ \E c \in hist.commands[i].cands : c.id = hist.commands[i].id
     /\ \A c \in hist.commands[i].cands :
           ~KeyLt(Rank(c) \o <<c.time>>, Rank(Chosen(i)) \o <<Chosen(i).time>>)

\* a command chosen before a candidate of its rank that had reached the
\* controller earlier
C13_Witness ==
  /\ \E i \in Commands : \E c \in hist.commands[i].cands :
        /\ Rank(c) = Rank(Chosen(i))
        /\ c.arrived < Chosen(i).arrived
        /\ Chosen(i).time < c.time

\* C14: in every reachable state, a bank of the DDR that is READING or
\* WRITING has an open row.
C14_BusyBankHasOpenRow ==
  \A b \in Banks :
     bank_states[b] \in {"READING", "WRITING"} => ddr_bank_open_row[b] # None

\* one bank is reading, another writing, and a third has never been opened
C14_Witness ==
  /\ \E b \in Banks : bank_states[b] = "READING" /\ ddr_bank_open_row[b] # None
  /\ \E b \in Banks : bank_states[b] = "WRITING" /\ ddr_bank_open_row[b] # None
  /\ \E b \in Banks : bank_states[b] = "IDLE" /\ ddr_bank_open_row[b] = None

\* C15: a request for which DDRMemory.request takes its error branch is
\* dropped: it is not in the completion heap of the DDR, and its callback is
\* never invoked.
C15_ErrorRequestDropped ==
  \A id \in hist.errored :
     /\ \A i \in 1 .. Len(scheduled_completions) : scheduled_completions[i].req.id # id
     /\ \A i \in 1 .. Len(hist.completed) : hist.completed[i].id # id

\* C15, its last part alone: the callback of a request that took the error
\* branch of DDRMemory.request is never invoked.
C15_ErrorCallbackNeverRuns ==
  \A id \in hist.errored :
     \A i \in 1 .. Len(hist.completed) : hist.completed[i].id # id

IsPowerOfTwo(n) == \E e \in 0 .. 6 : n = Pow2(e)

\* C16: the construction of a cache level with assoc not a power of two, or
\* with size not divisible by line_size * assoc, and of a DDR memory with
\* num_banks not positive, fails.
C16_MisconfigurationFails ==
  /\ hist.op = "CacheLevel"
       => LET size == hist.args[1]
              ls == hist.args[2]
              ways == hist.args[3]
          IN (~IsPowerOfTwo(ways) \/ ls * ways = 0 \/ size % (ls * ways) # 0)
                => hist.outcome.error
  /\ hist.op = "DDRMemory" => (hist.args[1] <= 0 => hist.outcome.error)

\* C17: immediately after update_on_access(w) on the tree of a set with a
\* power-of-two number of ways >= 2, in any state the tree can be in,
\* get_victim() returns another way than w.
C17_VictimIsNotLastAccessed ==
  hist.op = "update_on_access"
    => /\ get_victim(hist.bits, hist.ways) \in 0 .. (hist.ways - 1)
       /\ get_victim(hist.bits, hist.ways) # hist.way

\* an 8-way tree after accesses that left bits of both values, whose victim
\* is in the other half than the way accessed last
C17_Witness ==
  /\ hist.op = "update_on_access"
  /\ hist.ways = 8
  /\ hist.way = 5
  /\ \E i, j \in DOMAIN hist.bits : i > 0 /\ j > 0 /\ hist.bits[i] = 0 /\ hist.bits[j] = 1
  /\ get_victim(hist.bits, hist.ways) < 4

\* C18: the callback of a request is never invoked within the controller
\* cycle in which the request was scheduled: the tick completes before it
\* schedules, so the callback runs at the next cycle at the earliest, even
\* when the delay is 0.
C18_CallbackAfterSchedulingCycle ==
  \A i \in 1 .. Len(hist.completed) :
    \E j \in Commands :
      /\ hist.commands[j].id = hist.completed[i].id
      /\ hist.commands[j].cycle < hist.completed[i].cycle

\* a command of delay 0 (completion_time = its own cycle) whose callback ran
\* at the next cycle
C18_Witness ==
  \E i \in 1 .. Len(hist.completed), j \in Commands :
    /\ hist.commands[j].id = hist.completed[i].id
    /\ hist.commands[j].completion_time = hist.commands[j].cycle
    /\ hist.completed[i].cycle = hist.commands[j].cycle + 1

\* The ready_time under which request id waits in the interconnect queue.
ReadyTime(id) ==
  LET i == CHOOSE i \in 1 .. Len(ic_queue) : ic_queue[i].req.id = id
  IN ic_queue[i].key

\* C19: among the requests of the interconnect queue with the same
\* ready_time, forwarding is in insertion order: when a request is forwarded,
\* every request of the same ready_time inserted before it (smaller id) has
\* been forwarded before it.
C19_TiesForwardedInInsertionOrder ==
  [][pc = "interconnect" =>
       \A n \in (Len(hist.arrival) + 1) .. Len(hist'.arrival) :
         \A i \in 1 .. Len(ic_queue) :
           (/\ ic_queue[i].key = ReadyTime(hist'.arrival[n].id)
            /\ ic_queue[i].req.id < hist'.arrival[n].id)
             => \E k \in (Len(hist.arrival) + 1) .. (n - 1) :
                  hist'.arrival[k].id = ic_queue[i].req.id]_vars

\* C20: for every cache level, hits + misses is the number of calls of its
\* read and write operations, whoever made them: a core, the level above on
\* a read miss, a write-back of the level above or a write propagated by a
\* write-through level.
C20_HitsPlusMissesAreCalls ==
  \A k \in Levels : cache[k].hits + cache[k].misses = hist.calls[k]

\* a lower level called three times and missing each time, once by a
\* write-back of the level above, which was itself called three times
C20_Witness ==
  \E k \in Levels :
    /\ lower(k) # "none"
    /\ hist.written_back[k] # <<>>
    /\ hist.calls[lower(k)] >= 3
    /\ cache[lower(k)].misses >= 3
    /\ cache[k].hits + cache[k].misses = 3

\* The level holds the line of the address.
Holds(k, addr) == Lookup(cache[k].lines[_index(k, addr)], _tag(k, addr)) # None

\* Core c issues a read of addr in this step, and the read hits at level k:
\* at the L1 of the core, or at the level below after a miss at the L1.
ReadHits(c, k, addr) ==
  /\ hist'.issued[c] = Append(hist.issued[c], <<global_cycle, "read", addr>>)
  /\ \/ k = L1(c) /\ Holds(k, addr)
     \/ k = lower(L1(c)) /\ ~Holds(L1(c), addr) /\ Holds(k, addr)

\* What a read hit at level k leaves alone: the interconnect queue, the lines
\* and the miss counter of the level, the PLRU bits of its other sets; the
\* callback of the core has run and the hit is counted.
HitFrame(c, k, addr) ==
  /\ hist'.callbacks[c] = hist.callbacks[c] + 1
  /\ ic_queue' = ic_queue
  /\ cache'[k].lines = cache[k].lines
  /\ cache'[k].hits = cache[k].hits + 1
  /\ cache'[k].misses = cache[k].misses
  /\ \A s \in Sets(k) \ {_index(k, addr)} : cache'[k].bits[s] = cache[k].bits[s]

\* C21 as stated: a read that hits in a cache level, whichever it is, runs
\* the callback in the same step, forwards nothing, and changes nothing of
\* the level but its hit counter and the PLRU bits of the set.
C21_ReadHitFrame ==
  [][\A c \in Cores, k \in Levels, addr \in Addrs :
       ReadHits(c, k, addr) => HitFrame(c, k, addr)]_vars

\* C21 for what the code does: a hit at the L1 of the core changes nothing
\* but the hit counter and the PLRU bits of the set, at any level; a hit at
\* the level below runs the fill of the L1 as its callback, in the same
\* step, and the level's lines and miss counter stay as they were unless
\* that fill wrote a dirty victim of the L1 back into it; no read is
\* forwarded to the interconnect.
C21_CoreReadHitFrame ==
  [][\A c \in Cores, addr \in Addrs :
       /\ ReadHits(c, L1(c), addr)
            => /\ HitFrame(c, L1(c), addr)
               /\ \A j \in Levels \ {L1(c)} : cache'[j] = cache[j]
               /\ hist'.calls = [hist.calls EXCEPT ![L1(c)] = @ + 1]
       /\ ReadHits(c, lower(L1(c)), addr)
            => /\ hist'.callbacks[c] = hist.callbacks[c] + 1
               /\ cache'[lower(L1(c))].hits >= cache[lower(L1(c))].hits + 1
               /\ Holds(L1(c), addr)'
               /\ \A i \in 1 .. Len(ic_queue') :
                     ic_queue'[i].req.req_type = "read"
                       => \E j \in 1 .. Len(ic_queue) : ic_queue[j] = ic_queue'[i]
               /\ hist'.written_back[L1(c)] = hist.written_back[L1(c)]
                    => HitFrame(c, lower(L1(c)), addr)]_vars

\* only reads were issued; a core has read a line that the level below held
\* and its L1 did not (a hit below, the L1 filled in the same step), and has
\* read it again (a hit at its L1): both callbacks have run
C21_Witness ==
  \E c \in Cores :
    /\ pc = "cache"
    /\ \A d \in Cores : \A i \in 1 .. Len(hist.issued[d]) : hist.issued[d][i][2] = "read"
    /\ ic_queue = <<>>
    /\ cache[L1(c)].hits = 1
    /\ cache[L1(c)].misses = 1
    /\ cache[lower(L1(c))].hits = 1
    /\ hist.callbacks[c] = 2

\* C22: in a cycle at whose start stall_op of a core is set, the core issues
\* no new trace entry: it issues nothing, or the stalled op and nothing else,
\* and stall_op is kept or cleared, never replaced.
C22_NoNewEntryWhileStalled ==
  [][\A c \in Cores :
       (CoreTicks(c) /\ stall_op[c] # NoOp)
          => /\ NothingIssued(c) \/ IssuedNow(c, stall_op[c])
             /\ NothingIssued(c) => hist'.calls = hist.calls
             /\ stall_op'[c] \in {NoOp, stall_op[c]}]_vars

\* core 0 has just ticked with its stall_op set before and after, in a cycle
\* for which its trace has another entry, which has not been issued
C22_Witness ==
  /\ pc = "core1"
  /\ stall_op[0] # NoOp
  /\ Entry(0) # NoOp
  /\ Entry(0) # stall_op[0]
  /\ \A i \in 1 .. Len(hist.issued[0]) : hist.issued[0][i][1] < global_cycle

\* C23: every command is given at a cycle at which the precharge of its bank
\* is complete; hence after a row-miss command to a bank at cycle c0 no
\* command is given to that bank at a cycle c with c0 < c < c0 + tRP.
C23_NoCommandDuringPrecharge ==
  /\ \A i \in Commands :
        hist.commands[i].precharge_complete_time <= hist.commands[i].cycle
  /\ \A i, j \in Commands :
        (/\ hist.commands[i].bank = hist.commands[j].bank
         /\ hist.commands[i].open_row # hist.commands[i].row
         /\ hist.commands[i].cycle < hist.commands[j].cycle)
          => hist.commands[j].cycle >= hist.commands[i].cycle + tRP

\* a command given to a bank at the very cycle at which the precharge of the
\* row miss before it was complete
C23_Witness ==
  \E i, j \in Commands :
    /\ hist.commands[i].bank = hist.commands[j].bank
    /\ hist.commands[i].open_row # hist.commands[i].row
    /\ hist.commands[j].cycle = hist.commands[i].cycle + tRP
    /\ hist.commands[j].precharge_complete_time = hist.commands[j].cycle

\* C24: a command for a bank that is in ACTIVATE_BANK_ROW, READING or WRITING
\* with the row of the request open moves the bank to the state of the
\* request's kind, whichever of the three it was in, and is not an error.
C24_SameRowCommandAccepted ==
  [][(pc = "controller" /\ NextCommand # NoRequest)
       => LET bank == _get_bank(NextCommand.addr)
              row == _get_row(NextCommand.addr)
          IN (/\ bank_states[bank] \in {"ACTIVATE_BANK_ROW", "READING", "WRITING"}
              /\ ddr_bank_open_row[bank] = row)
               => /\ bank_states'[bank] =
                       IF NextCommand.req_type = "read" THEN "READING" ELSE "WRITING"
                  /\ NextCommand.id \notin hist'.errored]_vars

\* C25: every trace entry is issued to the cache of its core exactly once,
\* at its cycle or later: when the simulation is over, each core has issued
\* as many ops as its trace has entries, and every entry has its issue, of
\* the same op and address, at its cycle or after it.
C25_EveryEntryIssued ==
  (pc = "core0" /\ ~Running)
    => \A c \in Cores :
         /\ Len(hist.issued[c]) = Entries(inst[c])
         /\ \A t \in DOMAIN inst[c] :
               inst[c][t] # NoOp
                 => \E i \in 1 .. Len(hist.issued[c]) :
                      /\ hist.issued[c][i][1] >= t
                      /\ <<hist.issued[c][i][2], hist.issued[c][i][3]>> = inst[c][t]

\* C26: of two commands given to one bank, the later one never has the
\* earlier completion_time: the completions of a bank are in the order of
\* its commands.
C26_BankCompletesInOrder ==
  \A i, j \in Commands :
    (i < j /\ hist.commands[i].bank = hist.commands[j].bank)
      => hist.commands[j].completion_time >= hist.commands[i].completion_time

\* C27: for every bank, the open row the controller keeps is the open row
\* the DDR memory keeps, in every reachable state.
C27_OpenRowsAgree ==
  \A b \in Banks : ctrl_bank_open_row[b] = ddr_bank_open_row[b]

\* a bank that has had commands for two rows, a read and a write among them,
\* and whose last access is over: both sides hold the row of the last one
C27_Witness ==
  \E i, j \in Commands :
    /\ i < j
    /\ hist.commands[i].bank = hist.commands[j].bank
    /\ hist.commands[i].row # hist.commands[j].row
    /\ hist.commands[i].kind # hist.commands[j].kind
    /\ bank_states[hist.commands[j].bank] = "ACTIVATE_BANK_ROW"
    /\ ddr_bank_open_row[hist.commands[j].bank] = hist.commands[j].row
    /\ ctrl_bank_open_row[hist.commands[j].bank] = hist.commands[j].row

\* The identities of the requests each stage holds.
IdsOf(q) == {q[i].req.id : i \in 1 .. Len(q)}
InFlightIds == {scheduled_ddr_requests[i].request.id :
                  i \in 1 .. Len(scheduled_ddr_requests)}
StageIds == IdsOf(ic_queue) \cup IdsOf(ctrl_queue) \cup InFlightIds

\* C28, its state part: a request is held by one stage at a time, and once
\* in it; it has been forwarded at most once and scheduled at most once,
\* and the stage that holds it tells which.
C28_OneStageAtATime ==
  /\ IdsOf(ic_queue) \cap IdsOf(ctrl_queue) = {}
  /\ IdsOf(ctrl_queue) \cap InFlightIds = {}
  /\ IdsOf(ic_queue) \cap InFlightIds = {}
  /\ Cardinality(IdsOf(ic_queue)) = Len(ic_queue)
  /\ Cardinality(IdsOf(ctrl_queue)) = Len(ctrl_queue)
  /\ Cardinality(InFlightIds) = Len(scheduled_ddr_requests)
  /\ \A i, j \in 1 .. Len(hist.arrival) :
        hist.arrival[i].id = hist.arrival[j].id => i = j
  /\ \A i, j \in Commands : hist.commands[i].id = hist.commands[j].id => i = j
  /\ \A id \in 1 .. (next_id - 1) :
        /\ id \in IdsOf(ic_queue)
              <=> \A i \in 1 .. Len(hist.arrival) : hist.arrival[i].id # id
        /\ id \in IdsOf(ctrl_queue)
              <=> /\ \E i \in 1 .. Len(hist.arrival) : hist.arrival[i].id = id
                  /\ \A i \in Commands : hist.commands[i].id # id
        /\ id \in InFlightIds => \E i \in Commands : hist.commands[i].id = id

\* C28, the way out: _complete_ddr_requests removes a scheduled request from
\* the in-flight list at the first tick of the controller at or after its
\* completion_time and the tick after the one that scheduled it, and the
\* request is in no stage from then on.
C28_RemovedForGood ==
  \A i \in Commands :
     hist.commands[i].id \in InFlightIds
        <=> \/ hist.commands[i].completion_time >= ctrl_cycle
            \/ hist.commands[i].cycle = ctrl_cycle - 1

\* C28: every request is held by exactly one stage at a time and moves only
\* forward: it is forwarded once, scheduled once and removed once, and the
\* scheduling takes the chosen request out of the controller queue and no
\* other.
C28_UniquelyOwned == C28_OneStageAtATime /\ C28_RemovedForGood

\* the controller queue and the in-flight list hold a request each, another
\* request has left the in-flight list, and the controller has chosen a
\* request among several of its queue
C28_Witness ==
  /\ ctrl_queue # <<>>
  /\ scheduled_ddr_requests # <<>>
  /\ \E i \in Commands : Cardinality(hist.commands[i].cands) >= 2
  /\ \E i \in Commands : hist.commands[i].id \notin StageIds

\* The pending accesses of a core are reads, and the op it is stalled on, if
\* any, is a write.
OnlyReadsPending ==
  \A c \in Cores :
    /\ \A i \in 1 .. Len(pending_accesses[c]) : pending_accesses[c][i][1] = "read"
    /\ stall_op[c] # NoOp => stall_op[c][1] = "write"

\* When the cores have ticked, a core that is stalled is so behind a pending
\* read of the address of its write, and the read that the trace of a core
\* holds for the cycle has been issued unless the core is stalled or has
\* just issued the write it was stalled on.
StalledBehindRead ==
  pc = "interconnect" =>
    \A c \in Cores :
      /\ stall_op[c] # NoOp =>
            \E i \in 1 .. Len(pending_accesses[c]) :
               pending_accesses[c][i] = <<"read", stall_op[c][2]>>
      /\ (Entry(c) # NoOp /\ Entry(c)[1] = "read" /\ stall_op[c] = NoOp) =>
            \E i \in 1 .. Len(hist.issued[c]) :
               /\ hist.issued[c][i][1] = global_cycle
               /\ \/ <<hist.issued[c][i][2], hist.issued[c][i][3]>> = Entry(c)
                  \/ hist.issued[c][i][2] = "write"

BusyStates == {"ACTIVATE_BANK_ROW", "READING", "WRITING"}

\* C30: no reachable state has a bank in PRECHARGING; a bank has left IDLE
\* when it has received a command, and from then on it never returns to IDLE
\* and never has its open row reset to null: its state stays within
\* ACTIVATE_BANK_ROW, READING, WRITING.
C30_BanksNeverClose ==
  \A b \in 0 .. num_banks - 1 :
    /\ bank_states[b] # "PRECHARGING"
    /\ IF \E i \in 1 .. Len(hist.commands) : hist.commands[i].bank = b
       THEN bank_states[b] \in BusyStates /\ ddr_bank_open_row[b] # None
       ELSE bank_states[b] = "IDLE" /\ ddr_bank_open_row[b] = None

\* a bank has served two commands, the second to another row than the first,
\* and is active again with the second row open
C30_Witness ==
  \E b \in 0 .. num_banks - 1 :
    /\ bank_states[b] = "ACTIVATE_BANK_ROW"
    /\ scheduled_completions = <<>>
    /\ \E i, j \in 1 .. Len(hist.commands) :
          /\ i < j
          /\ hist.commands[i].bank = b
          /\ hist.commands[j].bank = b
          /\ hist.commands[i].row # hist.commands[j].row
          /\ ddr_bank_open_row[b] = hist.commands[j].row

====
